---- MODULE Spec2Model ----
(***************************************************************************)
(* A model of AdbDeviceManager (src/adbdevicemanager.py): the device       *)
(* resolution made by its constructor and the life cycle of the managed    *)
(* `flutter run` child process (start / hot reload / hot restart / stop /  *)
(* log tail), together with the environment the controller observes: the   *)
(* child exiting on its own, the child writing to its log, and the log     *)
(* file being removed.                                                     *)
(*                                                                         *)
(* Every public method is one action: the controller is driven by one      *)
(* sequential caller, and the child is observed only through poll() at     *)
(* call time, so the child's own steps happen between calls, or inside a   *)
(* call where the method waits (the start-up sleep, the graceful wait).    *)
(*                                                                         *)
(* Python values: None is written None for process handles, log handles    *)
(* and exit codes; PyNone for an absent string argument; NoPath for an     *)
(* unset flutter_log_path.  A returned f-string is a record of the message *)
(* and the values interpolated into it; a raised exception is the field    *)
(* `raised` of the record of the call.                                     *)
(***************************************************************************)
EXTENDS Integers, Sequences, FiniteSets, TLC

\* ------------------------------------------------------------------ bounds

\* Popen() calls one controller makes (each start that reaches the log open).
MaxSessions == 2
\* Lines in one log file.
MaxLogLen == 2
\* Lines a child writes during the start-up sleep.
MaxStartupLines == 1
\* Control lines the caller sends to one child with hot reload / hot restart.
MaxStdin == 2
\* Devices attached when the constructor enumerates them.
MaxAttached == 2

\* ------------------------------------------------------- values and inputs

None == -1
PyNone == "<None>"
NoPath == <<>>

\* Device serials known to the adb daemon, and the device_name arguments tried.
Serials == {"device123", "device456"}
DeviceNames == Serials \cup {PyNone, "", "emulator-5554"}

\* project_dir arguments: two directories that exist and one that does not.
ExistingDirs == {"app1", "app2"}
ProjectDirs == ExistingDirs \cup {"nodir"}

\* flutter_executable arguments, by what the file system holds for them:
\*   "flutter"            a bare name found on PATH
\*   "fluter"             a bare name not on PATH
\*   "/sdk/bin/missing"   a path to nothing
\*   "/sdk/README"        a path to a file that cannot be executed
Executables == {"flutter", "fluter", "/sdk/bin/missing", "/sdk/README"}
HasPathSep == {"/sdk/bin/missing", "/sdk/README"}
ExistingFiles == {"/usr/bin/flutter", "/sdk/README"}
OnPath == {"flutter"}
ExecutableFiles == {"/usr/bin/flutter"}

\* Exit codes of a child that ends on its own, and of a killed one.
ExitCodes == {0, 1}
KilledCode == -9

\* graceful_wait_seconds arguments, and the seconds a child takes to exit
\* once stop has written its quit line (Never: it does not exit).
GracefulWaits == {0, 2}
Never == 1000
QuitDelays == {1, 3, Never}

\* wait(timeout=5) after kill(): the confirmation wait; and the seconds a
\* killed child takes to be gone, a kill being one no child can ignore.
ConfirmWait == 5
KillDelays == {0, 4}

\* startup_wait_seconds arguments.
StartupWaits == {-1, 8}

\* additional_args arguments, a string being the sequence of its characters:
\* none given (None and "" are both falsy, and read alike), `-v 'a b'`, and
\* `'a` whose quotation never closes.
NoArgs == <<>>
AdditionalArgs == {NoArgs, <<"-", "v", " ", "'", "a", " ", "b", "'">>, <<"'", "a">>}

\* The callers that share one controller.
Callers == {"A", "B"}

\* lines arguments of get_flutter_run_log.
LineCounts == {-1, 1, 60}

\* A line a child writes: visible text, or whitespace only.
LineKinds == {"text", "blank"}

Max(a, b) == IF a >= b THEN a ELSE b
Min(a, b) == IF a <= b THEN a ELSE b

\* The most nodes a UI dump holds.
MaxNodes == 2
\* The most lines `dumpsys package` answers.
MaxDumpLines == 5

\* Sequences over S of length at most n.
RECURSIVE SeqsUpTo(_, _)
SeqsUpTo(S, n) ==
    IF n = 0 THEN {<<>>}
    ELSE LET shorter == SeqsUpTo(S, n - 1)
         IN  shorter \cup {Append(s, x) : s \in {t \in shorter : Len(t) = n - 1}, x \in S}

\* Lists of distinct serials: what device enumeration can return.
DeviceLists ==
    {l \in SeqsUpTo(Serials, MaxAttached) :
        \A i, j \in 1..Len(l) : i # j => l[i] # l[j]}

Elems(l) == {l[i] : i \in 1..Len(l)}

\* ------------------------------------------------------------------- state

VARIABLES
    \* constructor: its inputs and what it did
    adb_installed,          \* check_adb_installed()
    available_devices,      \* get_available_devices()
    device_name,            \* argument
    exit_on_error,          \* argument
    ctor,                   \* record of the constructor call
    \* the manager's fields
    device_serial,          \* self.device_serial
    flutter_process,        \* self.flutter_process: None or a child's pid
    flutter_log_path,       \* self.flutter_log_path: NoPath or a project directory's log
    _flutter_log_handle,    \* self._flutter_log_handle: None or a handle
    \* the world
    children,               \* every child spawned so far, by pid
    handles,                \* every log handle opened so far: TRUE while open
    log_file,               \* the file that flutter_log_path names
    \* the record of the last step: a call made on the controller, or a step
    \* of the environment
    last,
    \* the device tools
    pending,                \* the device-tool call about to be made, with what
                            \* the device will answer
    device_shell,           \* every command self.device.shell() was given
    \* callers that share the controller
    callers,                \* where each caller is in its start_flutter_run call
    overlapped              \* whether two calls have ever been in flight at once

ctorVars == <<adb_installed, available_devices, device_name, exit_on_error, ctor>>
mgrVars == <<device_serial, flutter_process, flutter_log_path, _flutter_log_handle>>
worldVars == <<children, handles, log_file>>
deviceVars == <<pending, device_shell>>
callerVars == <<callers, overlapped>>
vars == <<ctorVars, mgrVars, worldVars, last, deviceVars, callerVars>>

\* os.path.join(project_dir, ".mcp_flutter_run.log"), as its components.
LogPath(project_dir) == <<project_dir, ".mcp_flutter_run.log">>

\* The file flutter_log_path names: whether it exists, which open() created it
\* (the handle a child's output is tied to), and its lines, each <<pid, kind>>.
\* The controller reads and writes no other file.
NoFile == [exists |-> FALSE, inode |-> None, lines |-> <<>>]

\* ------------------------------------------------------------- constructor

\* A constructor that looks the requested name up before it tests for an
\* empty device list.
CtorFailure_lookup_first(installed, available, name) ==
    IF ~installed THEN "adb_not_installed"
    ELSE IF name \notin {PyNone, ""} /\ name \notin Elems(available) THEN "device_not_found"
    ELSE IF available = <<>> THEN "no_devices"
    ELSE IF name \in {PyNone, ""} /\ Len(available) > 1 THEN "multiple_devices"
    ELSE ""

\* The four fatal conditions of __init__, in the order it tests them;
\* "" when none holds.
CtorFailure(installed, available, name) ==
    IF ~installed THEN "adb_not_installed"
    ELSE IF available = <<>> THEN "no_devices"
    ELSE IF name \notin {PyNone, ""}
         THEN IF name \notin Elems(available) THEN "device_not_found" ELSE ""
    ELSE IF Len(available) = 1 THEN ""
    ELSE IF Len(available) > 1 THEN "multiple_devices"
    ELSE ""

\* The message of a failure: its text and the values interpolated into it.
CtorMessage(failure, available, name) ==
    CASE failure = "device_not_found" ->
            [text |-> failure, device |-> name, devices |-> available]
      [] failure = "multiple_devices" ->
            [text |-> failure, device |-> PyNone, devices |-> available]
      [] OTHER ->
            [text |-> failure, device |-> PyNone, devices |-> <<>>]

\* A resolution that takes the first attached device whatever was requested.
SelectedDevice_first(available, name) ==
    IF available # <<>> THEN available[1] ELSE PyNone

\* selected_device_name on the path that reaches AdbClient().device(...).
SelectedDevice(available, name) ==
    IF name \notin {PyNone, ""} THEN name
    ELSE IF Len(available) = 1 THEN available[1]
    ELSE PyNone

NoMessage == [text |-> "", device |-> PyNone, devices |-> <<>>]

CtorNew ==
    [state |-> "new", raised |-> NoMessage, printed |-> NoMessage,
     exits |-> <<>>, enumerated |-> FALSE, selected |-> PyNone]

\* A constructor that raises whatever exit_on_error says.
CtorFailed_always_raises(failure, message, strict) ==
    [CtorNew EXCEPT !.state = "raised", !.raised = message,
                    !.enumerated = (failure # "adb_not_installed")]

\* How a fatal condition is surfaced: exit_on_error prints the message and
\* calls sys.exit(1), which ends the process; otherwise RuntimeError(message)
\* is raised.  Either way no manager exists afterwards.
CtorFailed(failure, message, strict) ==
    IF strict
    THEN [CtorNew EXCEPT !.state = "exited", !.printed = message, !.exits = <<1>>,
                         !.enumerated = (failure # "adb_not_installed")]
    ELSE [CtorNew EXCEPT !.state = "raised", !.raised = message,
                         !.enumerated = (failure # "adb_not_installed")]

\* __init__(device_name, exit_on_error).
Construct ==
    /\ ctor.state = "new"
    /\ LET failure == CtorFailure(adb_installed, available_devices, device_name)
           message == CtorMessage(failure, available_devices, device_name)
           selected == SelectedDevice(available_devices, device_name)
       IN  IF failure # ""
           THEN /\ ctor' = CtorFailed(failure, message, exit_on_error)
                /\ UNCHANGED device_serial
           ELSE /\ ctor' = [CtorNew EXCEPT
                               !.state = "constructed",
                               !.enumerated = TRUE,
                               !.selected = selected,
                               !.printed =
                                   IF device_name \in {PyNone, ""}
                                   THEN [text |-> "auto_selected", device |-> selected,
                                         devices |-> <<>>]
                                   ELSE NoMessage]
                /\ device_serial' = selected
    /\ UNCHANGED <<adb_installed, available_devices, device_name, exit_on_error>>
    /\ UNCHANGED <<flutter_process, flutter_log_path, _flutter_log_handle>>
    /\ UNCHANGED <<worldVars, last, deviceVars, callerVars>>

\* ------------------------------------------------------ the managed process

\* The record of a call: the arguments it was made with, what it returned or
\* raised, and what it did.
NoTail == [kind |-> "", lines |-> <<>>]
Call(op, pre) ==
    [op |-> op, pre |-> pre,
     project_dir |-> "", target |-> "", flutter_executable |-> "",
     additional_args |-> NoArgs,
     ret |-> "", raised |-> "", pid |-> None, code |-> None, device |-> PyNone,
     path |-> NoPath, tail |-> NoTail,
     spawned |-> None, command |-> <<>>, kills |-> 0, writes |-> <<>>, flushes |-> 0,
     waited |-> 0]

\* Popen.poll(): None while the child is alive, its exit code afterwards.
poll(p) == children[p].returncode

\* The liveness test with its comparison inverted (`is not None`).
Running_inverted == flutter_process # None /\ poll(flutter_process) # None

\* `self.flutter_process and self.flutter_process.poll() is None`
Running == flutter_process # None /\ poll(flutter_process) = None

\* `self.flutter_process and self.flutter_process.poll() is not None`
Stale == flutter_process # None /\ poll(flutter_process) # None

\* The not-active test without its poll().
NotActive_unpolled == flutter_process = None

\* `not self.flutter_process or self.flutter_process.poll() is not None`
NotActive == flutter_process = None \/ poll(flutter_process) # None

\* The state of the Managed Process Record as a call finds it: Running while
\* the recorded child is alive, Exited ("stale") once it has exited, Absent
\* with no process handle.
ChildAlive(p) == children[p].returncode = None
RecordRunning == flutter_process # None /\ ChildAlive(flutter_process)
RecordStale == flutter_process # None /\ ~ChildAlive(flutter_process)
RecordState == IF RecordRunning THEN "running" ELSE IF RecordStale THEN "stale" ELSE "absent"

\* A cleanup that drops the log handle without closing it.
cleanup_without_close(m) == [process |-> None, handle |-> None, handles |-> m.handles]

\* A cleanup that closes the log handle and keeps the process handle.
cleanup_keeps_process(m) ==
    [process |-> m.process,
     handle |-> None,
     handles |-> IF m.handle # None /\ m.handles[m.handle]
                 THEN [m.handles EXCEPT ![m.handle] = FALSE]
                 ELSE m.handles]

\* A cleanup that drops the process handle and leaves the log handle alone.
cleanup_keeps_handle(m) == [process |-> None, handle |-> m.handle, handles |-> m.handles]

\* The fields _cleanup_flutter_process_state works on.
Mgr == [process |-> flutter_process, handle |-> _flutter_log_handle, handles |-> handles]

\* _cleanup_flutter_process_state(): close the log handle if it is open,
\* drop it, drop the process handle.
_cleanup_flutter_process_state(m) ==
    [process |-> None,
     handle |-> None,
     handles |-> IF m.handle # None /\ m.handles[m.handle]
                 THEN [m.handles EXCEPT ![m.handle] = FALSE]
                 ELSE m.handles]

\* _resolve_flutter_executable(): the resolved path, or "" when it raises.
_resolve_flutter_executable(flutter_executable) ==
    IF flutter_executable \in HasPathSep
    THEN IF flutter_executable \notin ExistingFiles THEN "" ELSE flutter_executable
    ELSE IF flutter_executable \in OnPath THEN "/usr/bin/" \o flutter_executable
    ELSE ""

\* The slice s[:n] in place of s[-n:].
PyLast_head(s, n) == SubSeq(s, 1, Min(n, Len(s)))

\* Python's s[-n:].
PyLast(s, n) ==
    LET start == -n
        from == IF start < 0 THEN Max(Len(s) + start, 0) ELSE Min(start, Len(s))
    IN  SubSeq(s, from + 1, Len(s))

\* str.rstrip() of the joined lines: trailing whitespace-only lines go.
RECURSIVE RStrip(_)
RStrip(s) ==
    IF s = <<>> THEN s
    ELSE IF s[Len(s)][2] = "blank" THEN RStrip(SubSeq(s, 1, Len(s) - 1))
    ELSE s

\* _tail_file(file_path, lines), `file` being the file at file_path.
_tail_file(file, lines) ==
    IF ~file.exists THEN [kind |-> "no_file", lines |-> <<>>]
    ELSE IF file.lines = <<>> THEN [kind |-> "empty", lines |-> <<>>]
    ELSE [kind |-> "text", lines |-> RStrip(PyLast(file.lines, lines))]

\* shlex.split(s, posix=True) over letters, blanks and single quotes, read
\* character by character as shlex.read_token does: `state` is "space" between
\* tokens, "word" inside one and "quote" inside a quotation.  The tokens, and
\* whether the scan ended outside a quotation (it raises ValueError otherwise).
RECURSIVE shlex_scan(_, _, _, _)
shlex_scan(s, state, token, tokens) ==
    IF s = <<>>
    THEN [tokens |-> IF state = "space" THEN tokens ELSE Append(tokens, token),
          ok |-> state # "quote"]
    ELSE LET c == Head(s)
             rest == Tail(s)
         IN  IF state = "quote"
             THEN IF c = "'" THEN shlex_scan(rest, "word", token, tokens)
                  ELSE shlex_scan(rest, "quote", token \o c, tokens)
             ELSE IF c = " "
             THEN IF state = "word" THEN shlex_scan(rest, "space", "", Append(tokens, token))
                  ELSE shlex_scan(rest, "space", "", tokens)
             ELSE IF c = "'" THEN shlex_scan(rest, "quote", token, tokens)
             ELSE shlex_scan(rest, "word", token \o c, tokens)

\* The scan of each additional_args argument.
shlex_table == [a \in AdditionalArgs |-> shlex_scan(a, "space", "", <<>>)]

\* `if additional_args: command.extend(shlex.split(additional_args, ...))`
shlex_split(additional_args) ==
    IF additional_args = NoArgs
    THEN [tokens |-> <<>>, ok |-> TRUE]
    ELSE shlex_table[additional_args]

\* The argv of the child without its device binding.
FlutterCommand_no_device(flutter_cmd, target, additional_args) ==
    <<flutter_cmd, "run", "-t", target>> \o shlex_split(additional_args).tokens

\* The argv of the child: bound to the selected device and the target,
\* followed by the tokens of additional_args.
FlutterCommand(flutter_cmd, target, additional_args) ==
    <<flutter_cmd, "run", "-d", device_serial, "-t", target>>
        \o shlex_split(additional_args).tokens

\* time.sleep(max(0, startup_wait_seconds)): the seconds slept.
StartupSleep(startup_wait_seconds) == Max(0, startup_wait_seconds)

\* The graceful wait without its clamp.
GracefulTimeout_unclamped(graceful_wait_seconds) == graceful_wait_seconds

\* wait(timeout=max(1, graceful_wait_seconds)): the timeout.
GracefulTimeout(graceful_wait_seconds) == Max(1, graceful_wait_seconds)

\* open(self.flutter_log_path, "w"): the file as handle h creates or truncates it.
OpenForWrite(file, h) == [exists |-> TRUE, inode |-> h, lines |-> <<>>]

\* Popen(command, stdin=PIPE, stdout=log handle h): the new child.
NewChild(h) == [returncode |-> None, stdin_pipe |-> TRUE, stdin |-> <<>>, stdout |-> h]

\* A dead child the manager holds no handle of: its Popen object is gone, and
\* nothing can observe or reach it any more.
Gone == [returncode |-> KilledCode, stdin_pipe |-> FALSE, stdin |-> <<>>, stdout |-> None]

\* The children after a step, `process` being the one the manager then holds:
\* the dead ones it does not hold are gone, but for a child the step itself
\* spawned, whose exit code the step has just read.
Collect(ch, process) ==
    [p \in DOMAIN ch |->
        IF ch[p].returncode # None /\ p # process /\ p <= Len(children) THEN Gone ELSE ch[p]]

\* The child p writes the lines `kinds` through its output handle h: they reach
\* the log file as long as the path still names the file that handle opened.
ChildOutput(file, p, h, kinds) ==
    IF file.exists /\ file.inode = h
    THEN [file EXCEPT !.lines = @ \o [i \in 1..Len(kinds) |-> <<p, kinds[i]>>]]
    ELSE file

\* The state a call would leave if it cleared flutter_log_path.
Post_clears_path(m, path, ch, file, call) ==
    [process |-> m.process, handle |-> m.handle, handles |-> m.handles,
     path |-> NoPath, children |-> Collect(ch, m.process), file |-> file, last |-> call]

\* The state a call leaves: the manager's fields, the world, the call's record.
Post(m, path, ch, file, call) ==
    [process |-> m.process, handle |-> m.handle, handles |-> m.handles,
     path |-> path, children |-> Collect(ch, m.process), file |-> file, last |-> call]

\* Whether start_flutter_run reaches Popen with a command that can be executed.
Spawns(project_dir, flutter_executable, additional_args) ==
    /\ ~Running
    /\ project_dir \in ExistingDirs
    /\ _resolve_flutter_executable(flutter_executable) \in ExecutableFiles
    /\ shlex_split(additional_args).ok

\* Whether start_flutter_run reaches the line that reads additional_args.
BuildsCommand(project_dir, flutter_executable) ==
    /\ ~Running
    /\ project_dir \in ExistingDirs
    /\ _resolve_flutter_executable(flutter_executable) # ""

\* The process handle without the assignment of the new child.
Spawned_unrecorded(process, pid) == process

\* `self.flutter_process = subprocess.Popen(...)`
Spawned(process, pid) == pid

\* The early-exit test by truthiness (`if self.flutter_process.poll():`).
ExitedEarly_truthy(code) == code \notin {None, 0}

\* `self.flutter_process.poll() is not None` when the start-up sleep ends,
\* `code` being what poll() returns.
ExitedEarly(code) == code # None

\* start_flutter_run past its already-active check: validation, spawn, the
\* start-up sleep and the check that follows it.  `output` is what the child
\* writes during the sleep and `early_exit` the code it exits with during it
\* (None: it is alive when the sleep ends).
StartFresh(project_dir, target, flutter_executable, additional_args, startup_wait_seconds, output, early_exit) ==
    LET call == [Call("start", RecordState) EXCEPT
                    !.project_dir = project_dir,
                    !.target = target,
                    !.flutter_executable = flutter_executable,
                    !.additional_args = additional_args]
        m1 == IF Stale THEN _cleanup_flutter_process_state(Mgr) ELSE Mgr
        flutter_cmd == _resolve_flutter_executable(flutter_executable)
    IN
    IF project_dir \notin ExistingDirs
    THEN Post(m1, flutter_log_path, children, log_file,
              [call EXCEPT !.raised = "project_dir_not_found"])
    ELSE IF flutter_cmd = ""
    THEN Post(m1, flutter_log_path, children, log_file,
              [call EXCEPT !.raised = "executable_not_found"])
    ELSE IF ~shlex_split(additional_args).ok
    THEN \* shlex.split raises ValueError: no closing quotation
         Post(m1, flutter_log_path, children, log_file,
              [call EXCEPT !.raised = "shlex_valueerror"])
    ELSE
    LET path == LogPath(project_dir)
        h == Len(m1.handles) + 1
        file == OpenForWrite(log_file, h)
        m2 == [m1 EXCEPT !.handle = h, !.handles = Append(m1.handles, TRUE)]
    IN
    IF flutter_cmd \notin ExecutableFiles
    THEN \* Popen raises (PermissionError): nothing is assigned to flutter_process
         Post(m2, path, children, file, [call EXCEPT !.raised = "popen_oserror"])
    ELSE
    LET pid == Len(children) + 1
        m3 == [m2 EXCEPT !.process = Spawned(m2.process, pid)]
        file2 == ChildOutput(file, pid, h, output)
        \* the child as the sleep leaves it
        child == [NewChild(h) EXCEPT !.returncode = early_exit]
        spawned == [call EXCEPT !.spawned = pid,
                                !.command = FlutterCommand(flutter_cmd, target,
                                                           additional_args)]
    IN
    IF StartupSleep(startup_wait_seconds) < 0
    THEN \* time.sleep raises ValueError on a negative argument
         Post(m3, path, Append(children, NewChild(h)), file,
              [spawned EXCEPT !.raised = "sleep_valueerror"])
    ELSE IF ExitedEarly(early_exit)
    THEN Post(_cleanup_flutter_process_state(m3), path, Append(children, child), file2,
              [spawned EXCEPT !.ret = "exited_early", !.code = early_exit,
                              !.tail = _tail_file(file2, 80)])
    ELSE Post(m3, path, Append(children, child), file2,
              [spawned EXCEPT !.ret = "started", !.pid = pid,
                              !.device = device_serial, !.path = path])

\* start_flutter_run without its already-active check.
StartOutcome_unchecked(project_dir, target, flutter_executable, additional_args, startup_wait_seconds, output, early_exit) ==
    StartFresh(project_dir, target, flutter_executable, additional_args,
               startup_wait_seconds, output, early_exit)

\* start_flutter_run(project_dir, target, flutter_executable, additional_args,
\* startup_wait_seconds).
StartOutcome(project_dir, target, flutter_executable, additional_args, startup_wait_seconds, output, early_exit) ==
    IF Running
    THEN Post(Mgr, flutter_log_path, children, log_file,
              [Call("start", RecordState) EXCEPT
                  !.project_dir = project_dir,
                  !.target = target,
                  !.flutter_executable = flutter_executable,
                  !.ret = "already_active", !.pid = flutter_process])
    ELSE StartFresh(project_dir, target, flutter_executable, additional_args,
                    startup_wait_seconds, output, early_exit)

\* The assignment of a call's outcome to the state.
Apply(post) ==
    /\ last' = post.last
    /\ log_file' = post.file
    /\ children' = post.children
    /\ flutter_process' = post.process
    /\ _flutter_log_handle' = post.handle
    /\ handles' = post.handles
    /\ flutter_log_path' = post.path
    /\ UNCHANGED <<ctorVars, device_serial, deviceVars, callerVars>>

Targets == {"lib/main.dart"}

\* What a child can write during the start-up sleep.
StartupOutputs == SeqsUpTo(LineKinds, MaxStartupLines)

\* additional_args is drawn when the call reads it and the sleep when a child
\* is spawned; the child writes and exits during a sleep that lasts, and does
\* nothing during one of no length.
start_flutter_run ==
    /\ ctor.state = "constructed"
    /\ \E project_dir \in ProjectDirs, target \in Targets, flutter_executable \in Executables :
       \E additional_args \in IF BuildsCommand(project_dir, flutter_executable)
                               THEN AdditionalArgs ELSE {NoArgs} :
          LET spawns == Spawns(project_dir, flutter_executable, additional_args)
          IN  \E startup_wait_seconds \in IF spawns THEN StartupWaits ELSE {0} :
              \E output \in IF spawns /\ StartupSleep(startup_wait_seconds) > 0
                            THEN StartupOutputs ELSE {<<>>},
                 early_exit \in IF spawns /\ StartupSleep(startup_wait_seconds) > 0
                                THEN ExitCodes \cup {None} ELSE {None} :
                 LET post == StartOutcome(project_dir, target, flutter_executable,
                                          additional_args, startup_wait_seconds,
                                          output, early_exit)
                 IN  /\ Len(post.handles) <= MaxSessions
                     /\ Apply(post)

\* A write that puts the line before the ones already written.
WriteLine_front(ch, p, line) == [ch EXCEPT ![p].stdin = <<line>> \o @]

\* A write that sends the line twice.
WriteLine_twice(ch, p, line) == [ch EXCEPT ![p].stdin = Append(Append(@, line), line)]

\* stdin.write(line); stdin.flush() on the child p.
WriteLine(ch, p, line) == [ch EXCEPT ![p].stdin = Append(@, line)]

\* hot_reload_flutter_run() / hot_restart_flutter_run(): `op` names the call,
\* `line` is the control line it writes.
HotOutcome(op, line) ==
    LET call == Call(op, RecordState)
    IN
    IF NotActive
    THEN Post(Mgr, flutter_log_path, children, log_file, [call EXCEPT !.ret = "no_active"])
    ELSE IF ~children[flutter_process].stdin_pipe
    THEN Post(Mgr, flutter_log_path, children, log_file,
              [call EXCEPT !.ret = "stdin_unavailable"])
    ELSE Post(Mgr, flutter_log_path, WriteLine(children, flutter_process, line), log_file,
              [call EXCEPT !.ret = "sent", !.writes = <<<<flutter_process, line>>>>,
                           !.flushes = 1])

\* The caller stops sending control lines to one child after MaxStdin of them.
HotBound == Running => Len(children[flutter_process].stdin) < MaxStdin

hot_reload_flutter_run ==
    /\ ctor.state = "constructed"
    /\ HotBound
    /\ Apply(HotOutcome("hot_reload", "r"))

hot_restart_flutter_run ==
    /\ ctor.state = "constructed"
    /\ HotBound
    /\ Apply(HotOutcome("hot_restart", "R"))

\* A stop that waits the graceful timeout a second time before it kills.
StopWaited_retry(timeout, quit_delay, kill_delay) ==
    IF quit_delay <= timeout THEN quit_delay ELSE timeout + timeout + kill_delay

\* The seconds stop spends in wait(): until the child exits within the
\* graceful timeout, else the whole timeout and then until the killed child
\* is gone.
StopWaited(timeout, quit_delay, kill_delay) ==
    IF quit_delay <= timeout THEN quit_delay ELSE timeout + kill_delay

\* stop_flutter_run(graceful_wait_seconds).  `quit_delay` is the time the child
\* takes to exit once the call has begun (Never: it stays), `code` the code it
\* exits with when it does, `kill_delay` the time it takes to be gone once
\* killed.
StopOutcome(graceful_wait_seconds, quit_delay, kill_delay, code) ==
    LET call == Call("stop", RecordState)
    IN
    IF NotActive
    THEN Post(_cleanup_flutter_process_state(Mgr), flutter_log_path, children, log_file,
              [call EXCEPT !.ret = "no_active"])
    ELSE
    LET pid == flutter_process
        has_stdin == children[pid].stdin_pipe
        ch1 == IF has_stdin THEN WriteLine(children, pid, "q") ELSE children
        call1 == IF has_stdin
                 THEN [call EXCEPT !.writes = <<<<pid, "q">>>>, !.flushes = 1]
                 ELSE call
        timeout == GracefulTimeout(graceful_wait_seconds)
        stopped_gracefully == quit_delay <= timeout
        call2 == [call1 EXCEPT !.waited = StopWaited(timeout, quit_delay, kill_delay)]
    IN
    IF stopped_gracefully
    THEN Post(_cleanup_flutter_process_state(Mgr), flutter_log_path,
              [ch1 EXCEPT ![pid].returncode = code], log_file,
              [call2 EXCEPT !.ret = "stopped_gracefully", !.pid = pid])
    ELSE IF kill_delay > ConfirmWait
    THEN \* TimeoutExpired: kill(), then wait(timeout=5) raises TimeoutExpired
         Post(Mgr, flutter_log_path, ch1, log_file,
              [call1 EXCEPT !.raised = "timeout_expired", !.kills = 1,
                            !.waited = timeout + ConfirmWait])
    ELSE \* TimeoutExpired: kill(), then wait(timeout=5)
         Post(_cleanup_flutter_process_state(Mgr), flutter_log_path,
              [ch1 EXCEPT ![pid].returncode = KilledCode], log_file,
              [call2 EXCEPT !.ret = "force_killed", !.pid = pid, !.kills = 1])

\* The child's reaction is drawn when there is a child to stop.
stop_flutter_run ==
    /\ ctor.state = "constructed"
    /\ \E graceful_wait_seconds \in GracefulWaits,
          quit_delay \in IF Running THEN QuitDelays ELSE {Never},
          kill_delay \in IF Running THEN KillDelays ELSE {0},
          code \in IF Running THEN ExitCodes ELSE {0} :
          Apply(StopOutcome(graceful_wait_seconds, quit_delay, kill_delay, code))

\* get_flutter_run_log(lines).
LogOutcome(lines) ==
    LET call == Call("get_log", RecordState)
    IN
    IF flutter_log_path = NoPath
    THEN Post(Mgr, flutter_log_path, children, log_file, [call EXCEPT !.ret = "no_log_yet"])
    ELSE Post(Mgr, flutter_log_path, children, log_file,
              [call EXCEPT !.ret = "tail",
                           !.flushes = IF _flutter_log_handle # None
                                          /\ handles[_flutter_log_handle]
                                       THEN 1 ELSE 0,
                           !.tail = _tail_file(log_file, Max(1, lines))])

get_flutter_run_log ==
    /\ ctor.state = "constructed"
    /\ \E lines \in LineCounts : Apply(LogOutcome(lines))

\* ------------------------------------------------------------ environment

\* The record of a step the environment takes: no call was made.
EnvStep == Call("env", "")

\* A child exits on its own.
ChildExits ==
    \E p \in 1..Len(children), code \in ExitCodes :
        /\ children[p].returncode = None
        /\ children' = Collect([children EXCEPT ![p].returncode = code], flutter_process)
        /\ last' = EnvStep
        /\ UNCHANGED <<ctorVars, mgrVars, handles, log_file, deviceVars, callerVars>>

\* A live child writes one line to its output.
ChildWritesLog ==
    \E p \in 1..Len(children), kind \in LineKinds :
        /\ children[p].returncode = None
        /\ Len(log_file.lines) < MaxLogLen
        /\ log_file' = ChildOutput(log_file, p, children[p].stdout, <<kind>>)
        /\ log_file' # log_file
        /\ children' = Collect(children, flutter_process)
        /\ last' = EnvStep
        /\ UNCHANGED <<ctorVars, mgrVars, handles, deviceVars, callerVars>>

\* The log file is removed from outside.
LogDeleted ==
    /\ log_file.exists
    /\ log_file' = NoFile
    /\ children' = Collect(children, flutter_process)
    /\ last' = EnvStep
    /\ UNCHANGED <<ctorVars, mgrVars, handles, deviceVars, callerVars>>

\* ------------------------------------------------------------ device tools

\* No device-tool call is about to be made.
NoPending == [op |-> ""]

\* Whitespace characters, a string being the sequence of its characters.
Whitespace == {" ", "\n"}

\* str.strip(): the string without the whitespace that begins and ends it.
RECURSIVE str_lstrip(_)
str_lstrip(s) == IF s # <<>> /\ Head(s) \in Whitespace THEN str_lstrip(Tail(s)) ELSE s
RECURSIVE str_rstrip(_)
str_rstrip(s) ==
    IF s # <<>> /\ s[Len(s)] \in Whitespace THEN str_rstrip(SubSeq(s, 1, Len(s) - 1)) ELSE s
str_strip(s) == str_rstrip(str_lstrip(s))

\* The characters of s as one string.
RECURSIVE Str(_)
Str(s) == IF s = <<>> THEN "" ELSE Head(s) \o Str(Tail(s))

\* What device.shell() can answer: nothing, whitespace, `ok` and a newline,
\* `o k` after a newline.
ShellOutputs == {<<>>, <<" ", "\n">>, <<"o", "k", "\n">>, <<"\n", "o", " ", "k">>}

\* package_name and activity_name arguments of launch_app; the activity names
\* that hold a "/".
Packages == {"com.a", "com.b"}
Activities == {PyNone, "", ".Main", "com.b/.Main"}
HasSlash == {"com.b/.Main"}

\* launch_app with the force-stop issued after the launch command.
LaunchOutcome_stop_last(package_name, activity_name, stop_first, launch_output) ==
    LET stop_calls == IF stop_first THEN <<"am force-stop " \o package_name>> ELSE <<>>
        stop_parts == IF stop_first THEN <<"Force-stopped " \o package_name>> ELSE <<>>
        component == IF activity_name \in HasSlash THEN activity_name
                     ELSE package_name \o "/" \o activity_name
        launch == IF activity_name \notin {PyNone, ""}
                  THEN "am start -n " \o component
                  ELSE "monkey -p " \o package_name
                           \o " -c android.intent.category.LAUNCHER 1"
        stripped == Str(str_strip(launch_output))
        output_parts == IF stripped # "" THEN Append(stop_parts, stripped) ELSE stop_parts
    IN  [shell |-> <<launch>> \o stop_calls,
         ret |-> IF output_parts = <<>>
                 THEN <<"Launch command sent for " \o package_name>>
                 ELSE output_parts]

\* launch_app(package_name, activity_name, stop_first), `launch_output` being
\* the device's answer to the launch command: the shell commands issued in
\* order, and the string returned as the list of the parts "\n" joins.
LaunchOutcome(package_name, activity_name, stop_first, launch_output) ==
    LET stop_calls == IF stop_first THEN <<"am force-stop " \o package_name>> ELSE <<>>
        stop_parts == IF stop_first THEN <<"Force-stopped " \o package_name>> ELSE <<>>
        component == IF activity_name \in HasSlash THEN activity_name
                     ELSE package_name \o "/" \o activity_name
        launch == IF activity_name \notin {PyNone, ""}
                  THEN "am start -n " \o component
                  ELSE "monkey -p " \o package_name
                           \o " -c android.intent.category.LAUNCHER 1"
        stripped == Str(str_strip(launch_output))
        output_parts == IF stripped # "" THEN Append(stop_parts, stripped) ELSE stop_parts
    IN  [shell |-> Append(stop_calls, launch),
         ret |-> IF output_parts = <<>>
                 THEN <<"Launch command sent for " \o package_name>>
                 ELSE output_parts]

\* The launch_app calls that can be pending.
LaunchRequests ==
    [op : {"launch_app"}, package_name : Packages, activity_name : Activities,
     stop_first : BOOLEAN, launch_output : ShellOutputs]

\* The pending device-tool call is made: `outcome` is what it issues and returns.
Answer(outcome) ==
    /\ device_shell' = device_shell \o outcome.shell
    /\ last' = [op |-> pending.op, request |-> pending, ret |-> outcome.ret, raised |-> ""]
    /\ pending' = NoPending
    /\ UNCHANGED <<ctorVars, mgrVars, worldVars, callerVars>>

launch_app ==
    /\ ctor.state = "constructed"
    /\ pending.op = "launch_app"
    /\ Answer(LaunchOutcome(pending.package_name, pending.activity_name,
                            pending.stop_first, pending.launch_output))

\* Words of a shell command, as their characters.
Adb == <<"a", "d", "b">>
Shell == <<"s", "h", "e", "l", "l">>
Ls == <<"l", "s">>
Sp == <<" ">>

\* command arguments of execute_adb_shell_command: `ls`, `adb shell ls`,
\* `adb ls`, `adb shell`, `adb shell adb shell ls`, `adb`, `adbls`, ` adb ls`,
\* the empty string and `adb shell `.
ShellCommands ==
    {Ls,
     Adb \o Sp \o Shell \o Sp \o Ls,
     Adb \o Sp \o Ls,
     Adb \o Sp \o Shell,
     Adb \o Sp \o Shell \o Sp \o Adb \o Sp \o Shell \o Sp \o Ls,
     Adb,
     Adb \o Ls,
     Sp \o Adb \o Sp \o Ls,
     <<>>,
     Adb \o Sp \o Shell \o Sp}

\* str.startswith(prefix)
startswith(s, prefix) == Len(s) >= Len(prefix) /\ SubSeq(s, 1, Len(prefix)) = prefix

\* The command with "adb " tested before "adb shell ".
StripPrefix_short_first(command) ==
    IF startswith(command, Adb \o Sp) THEN SubSeq(command, 5, Len(command))
    ELSE IF startswith(command, Adb \o Sp \o Shell \o Sp)
    THEN SubSeq(command, 11, Len(command))
    ELSE command

\* The command execute_adb_shell_command passes on: command[10:] after
\* "adb shell ", else command[4:] after "adb ", else the command.
StripPrefix(command) ==
    IF startswith(command, Adb \o Sp \o Shell \o Sp)
    THEN SubSeq(command, 11, Len(command))
    ELSE IF startswith(command, Adb \o Sp) THEN SubSeq(command, 5, Len(command))
    ELSE command

\* execute_adb_shell_command(command), `result` being the device's answer.
ShellOutcome(command, result) == [shell |-> <<StripPrefix(command)>>, ret |-> result]

\* The execute_adb_shell_command calls that can be pending.
ShellRequests == [op : {"run_shell"}, command : ShellCommands, result : ShellOutputs]

execute_adb_shell_command ==
    /\ ctor.state = "constructed"
    /\ pending.op = "run_shell"
    /\ Answer(ShellOutcome(pending.command, pending.result))

\* The numerals of a bounds attribute and int() of each.
int == "0" :> 0 @@ "1" :> 1 @@ "2" :> 2 @@ "4" :> 4 @@ "5" :> 5 @@ "7" :> 7
         @@ "100" :> 100 @@ "200" :> 200

\* A bounds attribute as the sequence of its brackets, commas, signs, spaces
\* and numerals: "", "[0,0]", "[0,0][100,200]", "[1,2][4,7]",
\* "[0,0][1,1][2,2]", "[-1,0][5,5]", "[0,0] [5,7]".
BoundsStrings ==
    {<<>>,
     <<"[", "0", ",", "0", "]">>,
     <<"[", "0", ",", "0", "]", "[", "100", ",", "200", "]">>,
     <<"[", "1", ",", "2", "]", "[", "4", ",", "7", "]">>,
     <<"[", "0", ",", "0", "]", "[", "1", ",", "1", "]", "[", "2", ",", "2", "]">>,
     <<"[", "-", "1", ",", "0", "]", "[", "5", ",", "5", "]">>,
     <<"[", "0", ",", "0", "]", " ", "[", "5", ",", "7", "]">>}

\* The <node> elements of a dump: clickable, text, content-desc, bounds.
Nodes ==
    [clickable : BOOLEAN, text : {"", "OK"}, content_desc : {"", "Back"},
     bounds : BoundsStrings]

\* re.findall(r"\[(\d+),(\d+)\]", bounds_str): the groups of the matches,
\* scanning from the left and resuming after each match.
RECURSIVE re_findall(_)
re_findall(bounds_str) ==
    IF Len(bounds_str) < 5 THEN <<>>
    ELSE IF /\ bounds_str[1] = "[" /\ bounds_str[2] \in DOMAIN int
            /\ bounds_str[3] = "," /\ bounds_str[4] \in DOMAIN int
            /\ bounds_str[5] = "]"
    THEN <<<<bounds_str[2], bounds_str[4]>>>>
             \o re_findall(SubSeq(bounds_str, 6, Len(bounds_str)))
    ELSE re_findall(Tail(bounds_str))

\* calculate_center returns None.
NoCenter == <<>>

\* The center as the sum of the coordinates, not halved.
calculate_center_unhalved(bounds_str) ==
    LET matches == re_findall(bounds_str)
    IN  IF Len(matches) = 2
        THEN <<int[matches[1][1]] + int[matches[2][1]],
               int[matches[1][2]] + int[matches[2][2]]>>
        ELSE NoCenter

\* calculate_center(bounds_str)
calculate_center(bounds_str) ==
    LET matches == re_findall(bounds_str)
    IN  IF Len(matches) = 2
        THEN <<(int[matches[1][1]] + int[matches[2][1]]) \div 2,
               (int[matches[1][2]] + int[matches[2][2]]) \div 2>>
        ELSE NoCenter

\* The nodes root.findall(".//node[@clickable='true']") yields that have text
\* or a description.
Listed(node) == node.clickable /\ (node.text # "" \/ node.content_desc # "")

\* element_info of a node: the lines it is made of, and their values.
ElementInfo(node) ==
    LET center == calculate_center(node.bounds)
    IN  [lines |-> <<"Clickable element:">>
                      \o (IF node.text # "" THEN <<"Text">> ELSE <<>>)
                      \o (IF node.content_desc # "" THEN <<"Description">> ELSE <<>>)
                      \o <<"Bounds">>
                      \o (IF center # NoCenter THEN <<"Center">> ELSE <<>>),
         text |-> node.text, description |-> node.content_desc,
         bounds |-> node.bounds, center |-> center]

\* get_uilayout(), `nodes` being the nodes of the dump in document order.
NoElements == "No clickable elements found with text or description"
LayoutOutcome(nodes) ==
    LET listed == SelectSeq(nodes, Listed)
        clickable_elements == [i \in 1..Len(listed) |-> ElementInfo(listed[i])]
    IN  [shell |-> <<"uiautomator dump", "rm /sdcard/window_dump.xml">>,
         ret |-> IF clickable_elements = <<>>
                 THEN [sentinel |-> NoElements, elements |-> <<>>]
                 ELSE [sentinel |-> "", elements |-> clickable_elements]]

\* The get_uilayout calls that can be pending.
LayoutRequests == [op : {"get_uilayout"}, nodes : SeqsUpTo(Nodes, MaxNodes)]

get_uilayout ==
    /\ ctor.state = "constructed"
    /\ pending.op = "get_uilayout"
    /\ Answer(LayoutOutcome(pending.nodes))

\* Lines of a `dumpsys package` answer, a line being the sequence of its
\* pieces (a blank is one piece): the two table headers, the subsection
\* header, two action lines (the second with a blank after it), a filter line
\* that names a component, and the empty line.
ActivityTable == <<"Activity Resolver Table:">>
ReceiverTable == <<"Receiver Resolver Table:">>
NonDataHeader == <<" ", " ", "Non-Data Actions:">>
DumpLines ==
    {ActivityTable,
     ReceiverTable,
     NonDataHeader,
     <<" ", " ", " ", "android.", "intent.action.MAIN:">>,
     <<" ", " ", " ", "com.", "a.GO:", " ">>,
     <<" ", " ", " ", " ", "1a2b", " ", "com.", "a/.Main">>,
     <<>>}

\* str.find over the lines of a text: the first of the places, -1 for none.
find(places) == IF places = {} THEN -1 ELSE CHOOSE i \in places : \A j \in places : i <= j

\* `line.startswith("android.") or line.startswith("com.")`
IsAction(line) == startswith(line, <<"android.">>) \/ startswith(line, <<"com.">>)

\* get_package_action_intents past its device call, `output` being the lines
\* of the answer.  output.find("Activity Resolver Table:") is the line that
\* holds the header; find("\n  Non-Data Actions:") in the text from there is
\* the first later line that begins with it; find("\n\n") from there is the
\* first empty line that another line follows.
Intents(output) ==
    LET resolver_table_start ==
            find({i \in 1..Len(output) :
                     \E k \in 1..Len(output[i]) : output[i][k] = ActivityTable[1]})
    IN  IF resolver_table_start = -1 THEN <<>>
        ELSE
        LET non_data_start ==
                find({j \in (resolver_table_start + 1)..Len(output) :
                         startswith(output[j], NonDataHeader)})
        IN  IF non_data_start = -1 THEN <<>>
            ELSE
            LET section_end ==
                    find({k \in (non_data_start + 1)..(Len(output) - 1) : output[k] = <<>>})
                non_data_section ==
                    IF section_end = -1 THEN SubSeq(output, non_data_start, Len(output))
                    ELSE SubSeq(output, non_data_start, section_end - 1)
            IN  SelectSeq([i \in 1..Len(non_data_section) |-> str_strip(non_data_section[i])],
                          IsAction)

\* get_package_action_intents(package_name).
IntentsOutcome(package_name, output) ==
    [shell |-> <<"dumpsys package " \o package_name>>, ret |-> Intents(output)]

\* The get_package_action_intents calls that can be pending.
IntentsRequests ==
    [op : {"list_action_intents"}, package_name : {"com.a"},
     output : SeqsUpTo(DumpLines, MaxDumpLines)]

get_package_action_intents ==
    /\ ctor.state = "constructed"
    /\ pending.op = "list_action_intents"
    /\ Answer(IntentsOutcome(pending.package_name, pending.output))

\* ------------------------------------------- callers sharing the controller

\* start_flutter_run called by two callers that share one controller, with no
\* lock around it: a call is a sequence of steps, each reading and writing the
\* controller's fields as they are when the step is taken, and the steps of
\* the two calls interleave.  A caller is at "idle" between calls, and inside
\* a call at the step it takes next.
Idle == [pc |-> "idle", project_dir |-> "", flutter_executable |-> ""]

\* A call is in flight.
InFlight(c) == callers[c].pc # "idle"

\* The record of a call of caller c that ends.
Ends(c) ==
    [Call("start", RecordState) EXCEPT
        !.project_dir = callers[c].project_dir,
        !.flutter_executable = callers[c].flutter_executable]

\* The record of a step inside a call.
Inside == Call("start_step", "")

\* The already-active check: the call returns, or goes on.
StartBegin(c) ==
    /\ ctor.state = "constructed"
    /\ callers[c].pc = "idle"
    /\ \E project_dir \in ProjectDirs, flutter_executable \in Executables :
          LET args == [Idle EXCEPT !.project_dir = project_dir,
                                   !.flutter_executable = flutter_executable]
          IN  IF Running
              THEN /\ last' = [Call("start", RecordState) EXCEPT
                                  !.project_dir = project_dir,
                                  !.flutter_executable = flutter_executable,
                                  !.ret = "already_active", !.pid = flutter_process]
                   /\ UNCHANGED callers
              ELSE /\ last' = Inside
                   /\ callers' = [callers EXCEPT ![c] = [args EXCEPT !.pc = "cleanup"]]
    /\ overlapped' = (overlapped \/ \E d \in Callers \ {c} : InFlight(d))
    /\ UNCHANGED <<ctorVars, mgrVars, worldVars, deviceVars>>

\* The stale check and its cleanup.
StartCleanup(c) ==
    /\ callers[c].pc = "cleanup"
    /\ LET m == IF Stale THEN _cleanup_flutter_process_state(Mgr) ELSE Mgr
       IN  /\ flutter_process' = m.process
           /\ _flutter_log_handle' = m.handle
           /\ handles' = m.handles
           /\ children' = Collect(children, m.process)
    /\ callers' = [callers EXCEPT ![c].pc = "validate"]
    /\ last' = Inside
    /\ UNCHANGED <<ctorVars, device_serial, flutter_log_path, log_file, deviceVars, overlapped>>

\* The directory check and the resolution of the executable.
StartValidate(c) ==
    /\ callers[c].pc = "validate"
    /\ LET failure ==
               IF callers[c].project_dir \notin ExistingDirs THEN "project_dir_not_found"
               ELSE IF _resolve_flutter_executable(callers[c].flutter_executable) = ""
               THEN "executable_not_found"
               ELSE ""
       IN  IF failure # ""
           THEN /\ last' = [Ends(c) EXCEPT !.raised = failure]
                /\ callers' = [callers EXCEPT ![c] = Idle]
           ELSE /\ last' = Inside
                /\ callers' = [callers EXCEPT ![c].pc = "open"]
    /\ UNCHANGED <<ctorVars, mgrVars, worldVars, deviceVars, overlapped>>

\* The assignment of flutter_log_path and the open of the log.
StartOpen(c) ==
    /\ callers[c].pc = "open"
    /\ Len(handles) < MaxSessions
    /\ flutter_log_path' = LogPath(callers[c].project_dir)
    /\ _flutter_log_handle' = Len(handles) + 1
    /\ handles' = Append(handles, TRUE)
    /\ log_file' = OpenForWrite(log_file, Len(handles) + 1)
    /\ callers' = [callers EXCEPT ![c].pc = "spawn"]
    /\ last' = Inside
    /\ UNCHANGED <<ctorVars, device_serial, flutter_process, children, deviceVars, overlapped>>

\* Popen with stdout=self._flutter_log_handle, as that field is now, and the
\* assignment of the child to self.flutter_process.
StartSpawn(c) ==
    /\ callers[c].pc = "spawn"
    /\ IF _resolve_flutter_executable(callers[c].flutter_executable) \notin ExecutableFiles
       THEN /\ last' = [Ends(c) EXCEPT !.raised = "popen_oserror"]
            /\ callers' = [callers EXCEPT ![c] = Idle]
            /\ UNCHANGED <<flutter_process, children>>
       ELSE /\ children' = Append(children, NewChild(_flutter_log_handle))
            /\ flutter_process' = Spawned(flutter_process, Len(children) + 1)
            /\ last' = Inside
            /\ callers' = [callers EXCEPT ![c].pc = "sleep"]
    /\ UNCHANGED <<ctorVars, device_serial, flutter_log_path, _flutter_log_handle,
                   handles, log_file, deviceVars, overlapped>>

\* The end of the start-up sleep: self.flutter_process, as that field is now,
\* is polled (AttributeError if it is None) and the call returns.
StartSettle(c) ==
    /\ callers[c].pc = "sleep"
    /\ callers' = [callers EXCEPT ![c] = Idle]
    /\ IF flutter_process = None
       THEN /\ last' = [Ends(c) EXCEPT !.raised = "attribute_error"]
            /\ UNCHANGED <<mgrVars, worldVars>>
       ELSE IF ExitedEarly(poll(flutter_process))
       THEN LET m == _cleanup_flutter_process_state(Mgr)
            IN  /\ last' = [Ends(c) EXCEPT !.ret = "exited_early",
                                          !.code = poll(flutter_process),
                                          !.tail = _tail_file(log_file, 80)]
                /\ flutter_process' = m.process
                /\ _flutter_log_handle' = m.handle
                /\ handles' = m.handles
                /\ children' = Collect(children, m.process)
                /\ UNCHANGED <<device_serial, flutter_log_path, log_file>>
       ELSE /\ last' = [Ends(c) EXCEPT !.ret = "started", !.pid = flutter_process,
                                      !.device = device_serial, !.path = flutter_log_path]
            /\ UNCHANGED <<mgrVars, worldVars>>
    /\ UNCHANGED <<ctorVars, deviceVars, overlapped>>

\* ----------------------------------------------------------- specifications

\* The fields __init__ sets once the device is resolved, and an empty world.
FreshManager ==
    /\ flutter_process = None
    /\ flutter_log_path = NoPath
    /\ _flutter_log_handle = None
    /\ children = <<>>
    /\ handles = <<>>
    /\ log_file = NoFile
    /\ last = Call("init", "absent")
    /\ device_shell = <<>>
    /\ callers = [c \in Callers |-> Idle]
    /\ overlapped = FALSE

\* Construction: any tooling state, attached devices and arguments.
InitCtor ==
    /\ adb_installed \in BOOLEAN
    /\ available_devices \in DeviceLists
    /\ device_name \in DeviceNames
    /\ exit_on_error \in BOOLEAN
    /\ ctor = CtorNew
    /\ device_serial = PyNone
    /\ FreshManager
    /\ pending = NoPending

NextCtor == Construct

SpecCtor == InitCtor /\ [][NextCtor]_vars

\* The controller of a constructed manager: the state __init__ leaves when it
\* auto-selects the only attached device.
Init ==
    /\ adb_installed = TRUE
    /\ available_devices = <<"device123">>
    /\ device_name = PyNone
    /\ exit_on_error = FALSE
    /\ device_serial = available_devices[1]
    /\ ctor = [CtorNew EXCEPT !.state = "constructed", !.enumerated = TRUE,
                              !.selected = device_serial,
                              !.printed = [text |-> "auto_selected", device |-> device_serial,
                                           devices |-> <<>>]]
    /\ FreshManager
    /\ pending = NoPending

\* The device tools of a constructed manager: one call is pending.
InitDevice ==
    /\ adb_installed = TRUE
    /\ available_devices = <<"device123">>
    /\ device_name = PyNone
    /\ exit_on_error = FALSE
    /\ device_serial = available_devices[1]
    /\ ctor = [CtorNew EXCEPT !.state = "constructed", !.enumerated = TRUE,
                              !.selected = device_serial,
                              !.printed = [text |-> "auto_selected", device |-> device_serial,
                                           devices |-> <<>>]]
    /\ FreshManager
    /\ pending \in LaunchRequests \cup ShellRequests \cup LayoutRequests \cup IntentsRequests

NextDevice ==
    \/ launch_app
    \/ execute_adb_shell_command
    \/ get_uilayout
    \/ get_package_action_intents

SpecDevice == InitDevice /\ [][NextDevice]_vars

\* Two callers drive start_flutter_run on one controller; children exit.
NextInterleaved ==
    \/ \E c \in Callers : StartBegin(c)
    \/ \E c \in Callers : StartCleanup(c)
    \/ \E c \in Callers : StartValidate(c)
    \/ \E c \in Callers : StartOpen(c)
    \/ \E c \in Callers : StartSpawn(c)
    \/ \E c \in Callers : StartSettle(c)
    \/ ChildExits

SpecInterleaved == Init /\ [][NextInterleaved]_vars

Next ==
    \/ start_flutter_run
    \/ hot_reload_flutter_run
    \/ hot_restart_flutter_run
    \/ stop_flutter_run
    \/ get_flutter_run_log
    \/ ChildExits
    \/ ChildWritesLog
    \/ LogDeleted

Spec == Init /\ [][Next]_vars

\* ------------------------------------------------------------------ claims

\* The children alive now.
AliveChildren == {p \in 1..Len(children) : ChildAlive(p)}

\* The step is a start call with arguments drawn from the given directories
\* and executables: start_flutter_run is the only step that leaves a record
\* of a start, and every other step replaces the record.
StartWith(dirs, exes) ==
    /\ last'.op = "start"
    /\ last'.project_dir \in dirs
    /\ last'.flutter_executable \in exes

\* Such a start call whose additional_args, if any, close their quotations.
StartWellQuoted(dirs, exes) ==
    /\ StartWith(dirs, exes)
    /\ last'.additional_args \in {a \in AdditionalArgs : shlex_split(a).ok}

\* Executables that resolve: a bare name on PATH, or a path to an existing file.
Resolvable == {e \in Executables : e \in OnPath \/ (e \in HasPathSep /\ e \in ExistingFiles)}

\* The log handle the manager held before a step is closed after it.
HeldHandleClosed == _flutter_log_handle # None => ~handles'[_flutter_log_handle]

\* C1: under one sequential caller at most one child spawned by the controller
\* is alive at any time, and a child that is alive is the one the controller's
\* process record holds.
C1_SingleFlight ==
    /\ Cardinality(AliveChildren) <= 1
    /\ AliveChildren \subseteq {flutter_process}

\* A second session is running and a start was just turned away.
C1_Witness ==
    /\ flutter_process = 2
    /\ ChildAlive(2)
    /\ last.op = "start"
    /\ last.ret = "already_active"

\* C2: start called while the recorded child is alive is a no-op whatever its
\* arguments: it raises nothing, returns the already-running status with the
\* existing pid, spawns nothing and leaves the process handle, the log handle,
\* flutter_log_path and the log file unchanged.
C2_StartWhileRunningIsNoOp ==
    [][(RecordRunning /\ StartWith(ProjectDirs, Executables)) =>
          /\ UNCHANGED <<mgrVars, worldVars>>
          /\ last'.raised = ""
          /\ last'.ret = "already_active"
          /\ last'.pid = flutter_process
          /\ last'.spawned = None]_vars

\* A start naming a directory that does not exist was turned away while the
\* child ran, the log keeping a line the child had written.
C2_Witness ==
    /\ last.op = "start"
    /\ last.pre = "running"
    /\ last.project_dir = "nodir"
    /\ last.ret = "already_active"
    /\ RecordRunning
    /\ log_file.lines # <<>>

\* C3, as claimed: from a stale record, start with an existing directory and a
\* resolvable executable closes the old log handle, spawns a new child and
\* leaves the record referring to that child, whose pid differs from the
\* dead one's.
C3_Original ==
    [][(RecordStale /\ StartWellQuoted(ExistingDirs, Resolvable)) =>
          /\ HeldHandleClosed
          /\ last'.spawned # None
          /\ flutter_process' = last'.spawned
          /\ flutter_process' # flutter_process]_vars

\* C3, amended: from a stale record, start with an existing directory and a
\* resolvable executable closes the old log handle; if the resolved file cannot
\* be executed the spawn raises and the record is Absent; otherwise a new child
\* is spawned whose pid differs from the dead one's, and the record refers to
\* it if it is alive when the start-up sleep ends and is Absent if it exited
\* during the sleep.
C3_StaleRecovery ==
    [][(RecordStale /\ StartWellQuoted(ExistingDirs, Resolvable)) =>
          /\ HeldHandleClosed
          /\ IF last'.raised = "popen_oserror"
             THEN /\ flutter_process' = None
                  /\ last'.spawned = None
                  /\ Len(children') = Len(children)
             ELSE /\ last'.raised = ""
                  /\ last'.spawned = Len(children) + 1
                  /\ last'.spawned # flutter_process
                  /\ Len(children') = Len(children) + 1
                  /\ IF last'.ret = "started"
                     THEN /\ flutter_process' = last'.spawned
                          /\ last'.pid = last'.spawned
                          /\ children'[last'.spawned].returncode = None
                     ELSE /\ last'.ret = "exited_early"
                          /\ flutter_process' = None
                          /\ children'[last'.spawned].returncode # None]_vars

\* A start found the record stale and left a new, live child recorded.
C3_Witness ==
    /\ last.op = "start"
    /\ last.pre = "stale"
    /\ last.ret = "started"
    /\ flutter_process = 2
    /\ ChildAlive(2)
    /\ ~handles[1]

\* A stop call with the given wait, the child taking `quit_delay` to exit.
StopWith(graceful_wait_seconds, quit_delay) ==
    \E code \in ExitCodes, kill_delay \in KillDelays :
        Apply(StopOutcome(graceful_wait_seconds, quit_delay, kill_delay, code))

\* C4: stop on a running child reports a graceful stop and never kills when
\* the child exits within the graceful wait (of at least one second); it
\* reports a forced stop and kills exactly once when the child never exits.
\* Either way the result names the pid of the stopped process.
C4_GracefulOrForced ==
    [][(last'.op = "stop" /\ RecordRunning) =>
          \A graceful_wait_seconds \in GracefulWaits, quit_delay \in QuitDelays :
             StopWith(graceful_wait_seconds, quit_delay) =>
                /\ last'.raised = ""
                /\ last'.pid = flutter_process
                /\ quit_delay <= Max(1, graceful_wait_seconds) =>
                      (last'.ret = "stopped_gracefully" /\ last'.kills = 0)
                /\ quit_delay = Never =>
                      (last'.ret = "force_killed" /\ last'.kills = 1)]_vars

\* A running child was force-killed by stop.
C4_Witness ==
    /\ last.op = "stop"
    /\ last.pre = "running"
    /\ last.ret = "force_killed"
    /\ last.kills = 1
    /\ last.pid = 1

C6_NotRunningNoOps ==
    /\ [][(~RecordRunning
            /\ last'.op \in {"hot_reload", "hot_restart", "stop"}
            /\ (hot_reload_flutter_run \/ hot_restart_flutter_run \/ stop_flutter_run)) =>
             /\ last'.raised = ""
             /\ last'.ret = "no_active"
             /\ last'.writes = <<>>
             /\ last'.kills = 0
             /\ last'.spawned = None
             /\ Len(children') = Len(children)
             /\ \A p \in 1..Len(children) :
                   /\ Len(children'[p].stdin) <= Len(children[p].stdin)
                   /\ ChildAlive(p) => children'[p] = children[p]
             /\ ~RecordRunning']_vars
    /\ [][(~RecordRunning /\ RecordRunning') =>
             (last'.op = "start" /\ last'.spawned = flutter_process')]_vars

\* A hot reload found that the recorded child had exited on its own.
C6_Witness ==
    /\ last.op = "hot_reload"
    /\ last.pre = "stale"
    /\ last.ret = "no_active"
    /\ RecordStale

\* The message of the failed construction, printed or raised.
CtorReported == IF ctor.state = "exited" THEN ctor.printed ELSE ctor.raised

\* No device was requested: device_name is None or blank.
NoRequest == device_name \in {PyNone, ""}

\* C7: with the tooling present and a non-empty attached list A: no request
\* and one device selects it; no request and several devices fails listing
\* all of A; a request outside A fails naming the request and all of A; a
\* request in A selects exactly it; a selected device is always in A.
C7_DeviceResolution ==
    (ctor.state # "new" /\ adb_installed /\ available_devices # <<>>) =>
        /\ (NoRequest /\ Len(available_devices) = 1) =>
              (ctor.state = "constructed" /\ device_serial = available_devices[1])
        /\ (NoRequest /\ Len(available_devices) >= 2) =>
              /\ ctor.state \in {"raised", "exited"}
              /\ CtorReported.text = "multiple_devices"
              /\ CtorReported.devices = available_devices
        /\ (~NoRequest /\ device_name \notin Elems(available_devices)) =>
              /\ ctor.state \in {"raised", "exited"}
              /\ CtorReported.text = "device_not_found"
              /\ CtorReported.device = device_name
              /\ CtorReported.devices = available_devices
        /\ (~NoRequest /\ device_name \in Elems(available_devices)) =>
              (ctor.state = "constructed" /\ device_serial = device_name)
        /\ ctor.state = "constructed" =>
              (device_serial \in Elems(available_devices) /\ ctor.selected = device_serial)

\* The second of two attached devices was requested and selected.
C7_Witness ==
    /\ ctor.state = "constructed"
    /\ Len(available_devices) = 2
    /\ device_name = available_devices[2]
    /\ device_serial = device_name

\* C8: the first unmet precondition decides the failure: missing tooling is
\* reported before devices are enumerated; an empty attached list gives the
\* no-devices failure even when a device was requested; device-not-found and
\* ambiguity are reported only with at least one device attached.
C8_PreconditionOrder ==
    ctor.state # "new" =>
        /\ ~adb_installed =>
              /\ ctor.state \in {"raised", "exited"}
              /\ CtorReported.text = "adb_not_installed"
              /\ ~ctor.enumerated
        /\ (adb_installed /\ available_devices = <<>>) =>
              /\ ctor.state \in {"raised", "exited"}
              /\ CtorReported.text = "no_devices"
        /\ CtorReported.text \in {"device_not_found", "multiple_devices"} =>
              (adb_installed /\ Len(available_devices) >= 1)

\* A device was requested with nothing attached: the no-devices failure.
C8_Witness ==
    /\ ctor.state = "raised"
    /\ device_name \in Serials
    /\ available_devices = <<>>
    /\ ctor.raised.text = "no_devices"

\* The fatal condition the inputs of the constructor meet, "" when none.
FatalCondition ==
    CASE ~adb_installed -> "adb_not_installed"
      [] adb_installed /\ available_devices = <<>> -> "no_devices"
      [] adb_installed /\ available_devices # <<>> /\ ~NoRequest
            /\ device_name \notin Elems(available_devices) -> "device_not_found"
      [] adb_installed /\ Len(available_devices) >= 2 /\ NoRequest -> "multiple_devices"
      [] OTHER -> ""

\* C9: on each fatal condition strict construction prints the message, exits
\* once with status 1 and constructs nothing; non-strict construction raises
\* the same message and never exits; the condition reported is the one the
\* inputs meet, whatever the mode.
C9_Strictness ==
    (ctor.state # "new" /\ FatalCondition # "") =>
        /\ device_serial = PyNone
        /\ CtorReported.text = FatalCondition
        /\ exit_on_error =>
              /\ ctor.state = "exited"
              /\ ctor.exits = <<1>>
              /\ ctor.printed.text = FatalCondition
              /\ ctor.raised = NoMessage
        /\ ~exit_on_error =>
              /\ ctor.state = "raised"
              /\ ctor.exits = <<>>
              /\ ctor.raised.text = FatalCondition
              /\ ctor.printed = NoMessage

\* Strict construction with two devices and no request: printed, exited.
C9_Witness ==
    /\ ctor.state = "exited"
    /\ exit_on_error
    /\ ctor.printed.text = "multiple_devices"
    /\ ctor.exits = <<1>>

\* The step spawned a child, and that child has exited by the end of the step.
SpawnedChildExited ==
    /\ Len(children') = Len(children) + 1
    /\ children'[Len(children')].returncode # None

\* C10: when the spawned child has exited by the end of the start-up sleep,
\* start raises nothing, returns the failure narrative with the child's exit
\* code and the log tail, and leaves no process handle and the new log handle
\* closed while flutter_log_path is set; afterwards hot_reload and stop report
\* that nothing is running and a start spawns again.
C10_StartupFailure ==
    /\ [][(StartWellQuoted(ExistingDirs, OnPath) /\ SpawnedChildExited) =>
             /\ last'.raised = ""
             /\ last'.ret = "exited_early"
             /\ last'.spawned = Len(children')
             /\ last'.code = children'[Len(children')].returncode
             /\ last'.code \in ExitCodes
             /\ last'.tail.kind \in {"empty", "text"}
             /\ last'.tail.lines = RStrip(log_file'.lines)
             /\ \A i \in 1..Len(log_file'.lines) : log_file'.lines[i][1] = last'.spawned
             /\ flutter_process' = None
             /\ _flutter_log_handle' = None
             /\ Len(handles') = Len(handles) + 1
             /\ ~handles'[Len(handles')]
             /\ flutter_log_path' = LogPath(last'.project_dir)
             /\ flutter_log_path' # NoPath]_vars
    /\ [][(last.op = "start" /\ last.ret = "exited_early") =>
             /\ (last'.op \in {"hot_reload", "stop"}
                 /\ (hot_reload_flutter_run \/ stop_flutter_run)) => last'.ret = "no_active"
             /\ StartWellQuoted(ExistingDirs, OnPath) =>
                   last'.spawned # None]_vars

\* A start whose child wrote a line and exited with code 1 during the sleep.
C10_Witness ==
    /\ last.op = "start"
    /\ last.ret = "exited_early"
    /\ last.code = 1
    /\ last.tail.kind = "text"
    /\ flutter_process = None
    /\ flutter_log_path # NoPath

\* C11, as claimed: a start call raises exactly when the record is not Running
\* and the project directory does not exist or the executable does not
\* resolve, the directory being checked first; a start that raises spawns
\* nothing, leaves the log file and flutter_log_path as they were, and leaves
\* no process handle.
C11_StartRaisesExactly ==
    [][StartWith(ProjectDirs, Executables) =>
          LET invalid == \/ last'.project_dir \notin ExistingDirs
                         \/ last'.flutter_executable \notin Resolvable
          IN  /\ last'.raised # "" <=> (~RecordRunning /\ invalid)
              /\ (~RecordRunning /\ last'.project_dir \notin ExistingDirs) =>
                    last'.raised = "project_dir_not_found"
              /\ last'.raised # "" =>
                    /\ last'.spawned = None
                    /\ Len(children') = Len(children)
                    /\ log_file' = log_file
                    /\ flutter_log_path' = flutter_log_path
                    /\ flutter_process' = None]_vars

\* The step spawned a child, and that child is alive at the end of the step.
SpawnedChildAlive ==
    /\ Len(children') = Len(children) + 1
    /\ children'[Len(children')].returncode = None

\* The tokens shlex.split gives for the additional_args whose quotations
\* close: none for no arguments, `-v` and `a b` for `-v 'a b'`.
ExpectedTokens(additional_args) ==
    IF additional_args = NoArgs THEN <<>> ELSE <<"-v", "a b">>

\* C12: a start whose spawned child is alive when the start-up wait ends
\* raises nothing and returns the success narrative naming the new pid, the
\* device and the log path, and leaves the record Running with the log handle
\* open and the child's input writable; every child spawned is run on the
\* device selected at construction, which no step changes, with the given
\* target, followed by the tokens of the additional arguments.
C12_SuccessfulStart ==
    /\ [][(StartWellQuoted(ExistingDirs, OnPath) /\ SpawnedChildAlive) =>
             /\ last'.raised = ""
             /\ last'.ret = "started"
             /\ last'.pid = Len(children')
             /\ last'.spawned = last'.pid
             /\ last'.device = ctor.selected
             /\ last'.path = LogPath(last'.project_dir)
             /\ flutter_log_path' = last'.path
             /\ flutter_process' = last'.pid
             /\ RecordRunning'
             /\ _flutter_log_handle' # None
             /\ handles'[_flutter_log_handle']
             /\ children'[last'.pid].stdout = _flutter_log_handle'
             /\ children'[last'.pid].stdin_pipe]_vars
    /\ [][(last'.op = "start" /\ Len(children') > Len(children)) =>
             /\ last'.spawned = Len(children')
             /\ Len(last'.command) >= 6
             /\ SubSeq(last'.command, 2, 6) =
                   <<"run", "-d", ctor.selected, "-t", last'.target>>
             /\ SubSeq(last'.command, 7, Len(last'.command)) =
                   ExpectedTokens(last'.additional_args)]_vars
    /\ [][device_serial' = device_serial /\ device_serial = ctor.selected]_vars

\* A start with quoted additional arguments left a live child recorded: two
\* tokens follow the target in its command.
C12_Witness ==
    /\ last.op = "start"
    /\ last.ret = "started"
    /\ last.additional_args # NoArgs
    /\ Len(last.command) = 8
    /\ RecordRunning

\* C13: while the record is Running and the child's input is available, a
\* hot_reload appends the one line `r` and a hot_restart the one line `R` to
\* that child's input and flushes once; the call reads nothing from the child,
\* touches no other child and leaves the process handle, the log handle,
\* flutter_log_path and the log file as they were.
C13_HotReloadWritesOneLine ==
    [][(/\ last'.op \in {"hot_reload", "hot_restart"}
        /\ RecordRunning
        /\ children[flutter_process].stdin_pipe) =>
          LET line == IF last'.op = "hot_reload" THEN "r" ELSE "R"
          IN  /\ last'.raised = ""
              /\ last'.ret = "sent"
              /\ last'.writes = <<<<flutter_process, line>>>>
              /\ last'.flushes = 1
              /\ last'.kills = 0
              /\ children' = [children EXCEPT ![flutter_process].stdin = Append(@, line)]
              /\ UNCHANGED <<mgrVars, handles, log_file>>
              /\ RecordRunning']_vars

\* A hot reload and then a hot restart reached the running child.
C13_Witness ==
    /\ last.op = "hot_restart"
    /\ last.ret = "sent"
    /\ RecordRunning
    /\ children[flutter_process].stdin = <<"r", "R">>

\* Some log handle the controller has opened is open.
SomeHandleOpen == \E h \in 1..Len(handles) : handles[h]

\* C14, as claimed: in every reachable state a log handle is open exactly
\* while the record is Running.
C14_Original == SomeHandleOpen <=> RecordRunning

\* C14, amended: while the record is Running the controller holds an open log
\* handle, the one its child writes to; once the child has exited on its own
\* the handle is still held and open, until a start or stop call finds the
\* record stale and closes it; and a step leaves a log handle held without a
\* process handle only when it is a start whose spawn raised, or when the
\* handle was already held so.
C14_LogHandle ==
    /\ [](flutter_process # None =>
             /\ _flutter_log_handle # None
             /\ handles[_flutter_log_handle]
             /\ children[flutter_process].stdout = _flutter_log_handle)
    /\ [][(RecordStale /\ last'.op \in {"start", "stop"}) => HeldHandleClosed]_vars
    /\ [][(flutter_process' = None /\ _flutter_log_handle' # None) =>
             \/ last'.raised = "popen_oserror"
             \/ (flutter_process = None /\ _flutter_log_handle' = _flutter_log_handle)]_vars

\* The child has exited on its own and the log handle is still open.
C14_Witness ==
    /\ RecordStale
    /\ _flutter_log_handle # None
    /\ handles[_flutter_log_handle]

LastLines(s, n) == SubSeq(s, Len(s) - Min(n, Len(s)) + 1, Len(s))

\* s up to its last line that is not blank.
UpToLastText(s) ==
    LET texts == {i \in 1..Len(s) : s[i][2] # "blank"}
    IN  SubSeq(s, 1, IF texts = {} THEN 0 ELSE CHOOSE i \in texts : \A j \in texts : j <= i)

\* The step is a get_log call reading an existing log that has lines.
ReadsLog == last'.op = "get_log" /\ log_file.exists /\ log_file.lines # <<>>

\* C16, as claimed: get_log(lines) on an existing log of L >= 1 lines returns
\* its last min(N, L) lines in order, N being lines clamped to at least 1, and
\* none of them is of an earlier session.
C16_Original ==
    [][ReadsLog =>
          \A lines \in LineCounts :
             Apply(LogOutcome(lines)) =>
                /\ last'.tail.kind = "text"
                /\ last'.tail.lines = LastLines(log_file.lines, Max(1, lines))
                /\ \A i \in 1..Len(last'.tail.lines) :
                      last'.tail.lines[i][1] = Len(children)]_vars

\* C16, amended: get_log(lines) on an existing log of L >= 1 lines returns its
\* last min(N, L) lines in order without the blank lines that end them, N
\* being lines clamped to at least 1; none of the lines of the log, and so
\* none returned, is of an earlier session than the last one spawned.
C16_LogTail ==
    /\ [][ReadsLog =>
             \A lines \in LineCounts :
                Apply(LogOutcome(lines)) =>
                   /\ last'.tail.kind = "text"
                   /\ last'.tail.lines =
                         UpToLastText(LastLines(log_file.lines, Max(1, lines)))]_vars
    /\ [](\A i \in 1..Len(log_file.lines) : log_file.lines[i][1] = Len(children))

\* A request for one line returned the last of the two lines of the log.
C16_Witness ==
    /\ last.op = "get_log"
    /\ Len(log_file.lines) = 2
    /\ last.tail.lines = <<log_file.lines[2]>>

\* C17, as claimed: get_log raises nothing and never returns an empty string:
\* it returns the guidance message when no log path is set, the not-found
\* message when the log file is missing, the `empty` sentinel when the file
\* has no lines, and text that is not empty otherwise; and it changes neither
\* the process record nor flutter_log_path.
C17_GetLogNeverEmpty ==
    [][last'.op = "get_log" =>
          /\ last'.raised = ""
          /\ UNCHANGED <<mgrVars, handles>>
          /\ IF flutter_log_path = NoPath THEN last'.ret = "no_log_yet"
             ELSE /\ last'.ret = "tail"
                  /\ IF ~log_file.exists THEN last'.tail.kind = "no_file"
                     ELSE IF log_file.lines = <<>> THEN last'.tail.kind = "empty"
                     ELSE last'.tail.kind = "text" /\ last'.tail.lines # <<>>]_vars

\* C18: launch_app issues exactly one launch command per call, a start of the
\* explicit component when an activity is given and a launcher-category intent
\* at the package otherwise; with stop_first a force-stop of the package is
\* issued before the launch command and is the first part of the result, and
\* without it no force-stop is issued. The result is never empty, and it is
\* the synthesized confirmation exactly when there is no stop notice and the
\* launch output is blank.
Blank(output) == \A i \in 1..Len(output) : output[i] \in Whitespace
LaunchCommands(package_name) ==
    {"am start -n " \o package_name \o "/.Main", "am start -n com.b/.Main",
     "monkey -p " \o package_name \o " -c android.intent.category.LAUNCHER 1"}
C18_LaunchApp ==
    last.op = "launch_app" =>
        LET r == last.request
            force_stop == "am force-stop " \o r.package_name
            launches == {i \in 1..Len(device_shell) :
                            device_shell[i] \in LaunchCommands(r.package_name)}
            stops == {i \in 1..Len(device_shell) : device_shell[i] = force_stop}
            launch == device_shell[Len(device_shell)]
            confirmation == <<"Launch command sent for " \o r.package_name>>
        IN  /\ Cardinality(launches) = 1
            /\ launches \cup stops = 1..Len(device_shell)
            /\ r.activity_name = ".Main"
                   => launch = "am start -n " \o r.package_name \o "/.Main"
            /\ r.activity_name = "com.b/.Main" => launch = "am start -n com.b/.Main"
            /\ r.activity_name \in {PyNone, ""}
                   => launch = "monkey -p " \o r.package_name
                                   \o " -c android.intent.category.LAUNCHER 1"
            /\ r.stop_first
                   => /\ stops = {1}
                      /\ launches = {2}
                      /\ last.ret[1] = "Force-stopped " \o r.package_name
            /\ ~r.stop_first => stops = {}
            /\ last.ret # <<>>
            /\ \A i \in 1..Len(last.ret) : last.ret[i] # ""
            /\ last.ret = confirmation <=> (~r.stop_first /\ Blank(r.launch_output))
            /\ last.raised = ""
C18_Witness ==
    /\ last.op = "launch_app"
    /\ last.request.stop_first
    /\ last.request.activity_name = ".Main"
    /\ ~Blank(last.request.launch_output)
    /\ Len(device_shell) = 2
    /\ Len(last.ret) = 2

\* C19: for a bounds string holding exactly two bracketed pairs [x1,y1][x2,y2]
\* the emitted center is (floor((x1+x2)/2), floor((y1+y2)/2)), [0,0][100,200]
\* giving (50,100); with any other number of pairs no center line is emitted
\* but the element still is when it has text or a description; a clickable
\* element with empty text and empty description is never emitted, nor is an
\* element that is not clickable, and the sentinel is returned exactly when no
\* element qualifies.
PairAt(bounds, i) ==
    /\ i + 4 <= Len(bounds)
    /\ bounds[i] = "[" /\ bounds[i + 1] \in DOMAIN int /\ bounds[i + 2] = ","
    /\ bounds[i + 3] \in DOMAIN int /\ bounds[i + 4] = "]"
PairStarts(bounds) == {i \in 1..Len(bounds) : PairAt(bounds, i)}
Qualifies(node) == node.clickable /\ ~(node.text = "" /\ node.content_desc = "")
C19_UiLayoutCenter ==
    last.op = "get_uilayout" =>
        LET nodes == last.request.nodes
            Q == {i \in 1..Len(nodes) : Qualifies(nodes[i])}
            Rank(i) == Cardinality({j \in Q : j <= i})
            elements == last.ret.elements
        IN  /\ Len(elements) = Cardinality(Q)
            /\ last.ret.sentinel = NoElements <=> Q = {}
            /\ Q # {} => last.ret.sentinel = ""
            /\ \A i \in Q :
                   LET e == elements[Rank(i)]
                       b == nodes[i].bounds
                       starts == PairStarts(b)
                       has(line) == \E k \in 1..Len(e.lines) : e.lines[k] = line
                   IN  /\ e.text = nodes[i].text
                       /\ e.description = nodes[i].content_desc
                       /\ e.bounds = b
                       /\ has("Text") <=> nodes[i].text # ""
                       /\ has("Description") <=> nodes[i].content_desc # ""
                       /\ has("Bounds")
                       /\ has("Center") <=> Cardinality(starts) = 2
                       /\ Cardinality(starts) = 2 =>
                              \E p, q \in starts :
                                  /\ p < q
                                  /\ 2 * e.center[1] <= int[b[p + 1]] + int[b[q + 1]]
                                  /\ int[b[p + 1]] + int[b[q + 1]] < 2 * e.center[1] + 2
                                  /\ 2 * e.center[2] <= int[b[p + 3]] + int[b[q + 3]]
                                  /\ int[b[p + 3]] + int[b[q + 3]] < 2 * e.center[2] + 2
                       /\ b = <<"[", "0", ",", "0", "]", "[", "100", ",", "200", "]">>
                              => e.center = <<50, 100>>
C19_Witness ==
    /\ last.op = "get_uilayout"
    /\ Len(last.request.nodes) = 2
    /\ Len(last.ret.elements) = 1
    /\ last.ret.elements[1].bounds = <<"[", "1", ",", "2", "]", "[", "4", ",", "7", "]">>
    /\ last.ret.elements[1].center = <<2, 4>>
    /\ ~last.request.nodes[1].clickable

\* C20: run_shell makes exactly one device shell call per invocation, with the
\* command less one leading "adb shell ", otherwise less one leading "adb ";
\* a command that starts with neither is passed unchanged, what follows the
\* prefix is passed as it is, and the device's answer is returned.
AdbShellPrefix == Adb \o Sp \o Shell \o Sp
AdbPrefix == Adb \o Sp
HasPrefix(command, prefix) ==
    \E k \in 1..(Len(command) + 1) : command = prefix \o SubSeq(command, k, Len(command))
C20_RunShell ==
    last.op = "run_shell" =>
        LET command == last.request.command
        IN  /\ Len(device_shell) = 1
            /\ HasPrefix(command, AdbShellPrefix)
                   => command = AdbShellPrefix \o device_shell[1]
            /\ (~HasPrefix(command, AdbShellPrefix) /\ HasPrefix(command, AdbPrefix))
                   => command = AdbPrefix \o device_shell[1]
            /\ (~HasPrefix(command, AdbShellPrefix) /\ ~HasPrefix(command, AdbPrefix))
                   => device_shell[1] = command
            /\ last.ret = last.request.result
            /\ last.raised = ""
C20_Witness ==
    /\ last.op = "run_shell"
    /\ last.request.command = Adb \o Sp \o Shell \o Sp \o Adb \o Sp \o Shell \o Sp \o Ls
    /\ device_shell = <<Adb \o Sp \o Shell \o Sp \o Ls>>

\* The table headers of a dump, and the lines of the Activity Resolver Table
\* section: from its header to the line before the next table header.
IsTableHeader(line) == line \in {ActivityTable, ReceiverTable}
ActivitySection(output) ==
    LET starts == {i \in 1..Len(output) : output[i] = ActivityTable}
        s == CHOOSE i \in starts : \A j \in starts : i <= j
    IN  IF starts = {} THEN {}
        ELSE {i \in s..Len(output) : \A j \in (s + 1)..i : ~IsTableHeader(output[j])}

\* A line without the blanks that begin and end it, and whether what is left
\* begins with `android.` or `com.`.
Trimmed(line) ==
    LET marks == {k \in 1..Len(line) : line[k] # " "}
    IN  IF marks = {} THEN <<>>
        ELSE SubSeq(line, CHOOSE k \in marks : \A m \in marks : k <= m,
                          CHOOSE k \in marks : \A m \in marks : m <= k)
Prefixed(line) == Trimmed(line) # <<>> /\ Trimmed(line)[1] \in {"android.", "com."}

\* What the claim has the call return for the answer `output`.
ClaimedIntents(output) ==
    LET headers == {j \in ActivitySection(output) : output[j] = NonDataHeader}
        h == CHOOSE j \in headers : \A k \in headers : j <= k
        blanks == {k \in (h + 1)..Len(output) : output[k] = <<>>}
        sub == {i \in h..Len(output) : \A k \in blanks : i < k}
        listed == {i \in sub : Prefixed(output[i])}
        Nth(n) == CHOOSE i \in listed : Cardinality({j \in listed : j <= i}) = n
    IN  IF headers = {} THEN <<>>
        ELSE [n \in 1..Cardinality(listed) |-> Trimmed(output[Nth(n)])]

\* C21, as claimed: list_action_intents raises nothing and returns an empty
\* sequence when the answer has no Activity Resolver Table section or that
\* section has no Non-Data Actions subsection; otherwise it returns the lines
\* of that subsection, up to the first empty line or the end of the text, that
\* begin once trimmed with `android.` or `com.`, trimmed and in their order.
C21_ActionIntents ==
    last.op = "list_action_intents" =>
        /\ last.raised = ""
        /\ device_shell = <<"dumpsys package " \o last.request.package_name>>
        /\ last.ret = ClaimedIntents(last.request.output)

\* C22, as claimed: the controller never leaves a log handle open once it
\* holds no process handle: after a stop, a stale-process cleanup, a start-up
\* early exit and a start aborted by an error at any step, the spawn included,
\* every log handle it opened is closed; and no start overwrites a log handle
\* that is still open.
C22_HandleRelease ==
    /\ [](flutter_process = None => ~SomeHandleOpen)
    /\ [][(_flutter_log_handle # None /\ _flutter_log_handle' # _flutter_log_handle) =>
             ~handles'[_flutter_log_handle]]_vars

WrittenTo(p) ==
    LET to_p == SelectSeq(last'.writes, LAMBDA w : w[1] = p)
    IN  [i \in 1..Len(to_p) |-> to_p[i][2]]

\* The control line of a call.
ControlLine(op) ==
    CASE op = "hot_reload" -> "r" [] op = "hot_restart" -> "R" [] op = "stop" -> "q"
      [] OTHER -> ""

\* C24: a hot_reload or hot_restart that reports success appends its line, `r`
\* or `R`, to the end of what the recorded child was sent before, so the lines
\* are in the order of the calls; only those calls and stop write, one line
\* each, stop writing `q`; a write goes to the child recorded and alive when
\* the call is made and to no other; the child that was sent `q` is dead when
\* stop ends, a dead child never lives again and is never written to, so
\* nothing follows a `q`, and a live child has been sent only `r` and `R`.
C24_ControlLineOrder ==
    /\ [][last'.writes # <<>> =>
             /\ last'.op \in {"hot_reload", "hot_restart", "stop"}
             /\ last'.writes = <<<<flutter_process, ControlLine(last'.op)>>>>
             /\ RecordRunning
             /\ last'.op # "stop" => last'.ret = "sent"]_vars
    /\ [][(last'.op \in {"hot_reload", "hot_restart"} /\ last'.ret = "sent") =>
             /\ last'.writes = <<<<flutter_process, ControlLine(last'.op)>>>>
             /\ children'[flutter_process].stdin =
                   Append(children[flutter_process].stdin, ControlLine(last'.op))]_vars
    /\ [][\A p \in 1..Len(children) :
             /\ ChildAlive(p)' => children'[p].stdin = children[p].stdin \o WrittenTo(p)
             /\ ~ChildAlive(p) => (~ChildAlive(p)' /\ WrittenTo(p) = <<>>)
             /\ (last'.op = "stop" /\ WrittenTo(p) # <<>>) => ~ChildAlive(p)']_vars
    /\ [][\A p \in (Len(children) + 1)..Len(children') : children'[p].stdin = <<>>]_vars
    /\ [](\A p \in 1..Len(children) :
             ChildAlive(p) => \A i \in 1..Len(children[p].stdin) :
                                 children[p].stdin[i] \in {"r", "R"})

\* The second child was sent a hot restart and then a hot reload.
C24_Witness ==
    /\ last.op = "hot_reload"
    /\ last.ret = "sent"
    /\ flutter_process = 2
    /\ children[2].stdin = <<"R", "r">>

\* C25: start_flutter_run takes no lock, so two children alive at once, or a
\* live child the record does not hold, are reached when the start calls of
\* two callers interleave, and only then: as long as no two calls have been
\* in flight at once at most one child is alive and it is the one recorded.
C25_SequentialOnly ==
    (Cardinality(AliveChildren) >= 2 \/ ~(AliveChildren \subseteq {flutter_process}))
        => overlapped

\* Both callers passed the not-running check and each spawned a child: both
\* children are alive and both calls reported success, the second child is
\* the one recorded, and the log handle of the first, overwritten by the
\* second call, is still open.
C25_Witness ==
    /\ overlapped
    /\ \A c \in Callers : ~InFlight(c)
    /\ AliveChildren = {1, 2}
    /\ flutter_process = 2
    /\ last.ret = "started"
    /\ _flutter_log_handle = children[2].stdout
    /\ children[1].stdout # _flutter_log_handle
    /\ handles[children[1].stdout]

====
